---- MODULE Spec2Model ----
(***************************************************************************)
(* A model of src/promise.js: the Promise class (state, value, reason and  *)
(* the two callback queues), the resolution procedure resolvePromise, the  *)
(* chaining operation then with catch and finally, the constructor, the    *)
(* static adapters Promise.resolve and Promise.reject and the combinators  *)
(* all / race / allSettled / any, running against a FIFO microtask queue.  *)
(*                                                                         *)
(* Every operation of the source is an operator from a world record W (the *)
(* heap of promises, the microtask queue, ...) to the world after the call;*)
(* an action of the model applies one whole call or one whole microtask to *)
(* the current world.                                                      *)
(***************************************************************************)
EXTENDS Integers, Sequences, FiniteSets, TLC

VARIABLES
  promises,    \* the heap: promises[id] is one Promise instance and the closure of the then call that made it
  microtasks,  \* the host's microtask queue (queueMicrotask), FIFO
  thenables,   \* the foreign thenables of the run: how their then member behaves
  called,      \* called[g]: the `called` flag of the g-th foreign then invocation of resolvePromise
  subs,        \* callback pairs handed to foreign then members (a thenable may call them later)
  comb,        \* the one combinator call of the run: its locals (results, total) and its result
  log,         \* history: every handler invocation, in order
  order,       \* history: promise ids in the order they left pedding
  entries,     \* history: calls of the exposed entry points (Promise.deferred), in order
  raised       \* what the last call of the program threw to its caller (None: it returned)

vars == <<promises, microtasks, thenables, called, subs, comb, log, order, entries, raised>>

----------------------------------------------------------------------------
(* Bounds of the model *)

MaxDeferred == 2   \* Spec: Promise.deferred() calls per run
MaxEntry    == 2   \* Spec: calls of the exposed resolve / reject entry points per run
MaxChain    == 1   \* Spec: then calls of the program per run
MaxSettle   == 2   \* SpecOrder: calls of the exposed entry points per run
MaxThen     == 3   \* SpecOrder: then calls of the program per run
MaxLoop     == 2   \* SpecCycle: then calls of the program per run
MaxSync     == 2   \* SpecThenable: signals a foreign then makes before it returns
MaxLater    == 1   \* SpecThenable: callbacks a foreign then makes after it returned, per call
MaxInputs   == 2   \* SpecAll, SpecRace, SpecAllSettled, SpecAny: length of the combinator's input
MaxNew      == 2   \* SpecNew: new Promise(executor) calls per run
MaxCalls    == 2   \* SpecNew: calls of resolve / reject an executor makes
MaxHops     == 2   \* SpecDefault: then / catch calls of the program per run
MaxLayers   == 2   \* SpecNested: deferred promises under the outermost one
MaxSubs     == 2   \* SpecFair: then calls of the program per run

----------------------------------------------------------------------------
(* The three states, src/promise.js:5-7 *)

PEDDING   == "pedding"
FULFILLED == "fulfilled"
REJECTED  == "rejected"

(* Values.  Every JavaScript value of the model is a record [t, n]:         *)
(*   number n, null, undefined, the promise with id n, the foreign thenable *)
(*   n, an Error object n, the results array of the combinator call.        *)
Num(n)     == [t |-> "number", n |-> n]
Null       == [t |-> "null", n |-> 0]
Undefined  == [t |-> "undefined", n |-> 0]
P(id)      == [t |-> "Promise", n |-> id]
T(id)      == [t |-> "thenable", n |-> id]
Err(n)     == [t |-> "Error", n |-> n]
Results    == [t |-> "Array", n |-> 0]
CycleError == [t |-> "TypeError", n |-> 0]
None       == [t |-> "none", n |-> 0]        \* "nothing was thrown"

(* Handlers: the functions handed to then.  h names the function, a and i   *)
(* are what it closes over.                                                 *)
Handler(h, a, i) == [h |-> h, a |-> a, i |-> i]
NotAFunction     == Handler("undefined", Undefined, 0)
NullHandler      == Handler("null", Null, 0)

(* isFunction, src/promise.js:1, on what is handed over as a handler *)
isFunction(func) == func.h \notin {"undefined", "null"}
Return(v)        == Handler("return", v, 0)
Throw(e)         == Handler("throw", e, 0)

(* The combinator call of the run: its kind, its input, its locals results  *)
(* and total, the promise it returned (result) and, as history, the promise *)
(* Promise.resolve gave for each input (wrapped), the promise then made for *)
(* it (derived) and the error thrown out of the executor (aborted).         *)
NoComb == [kind |-> "none", inputs |-> <<>>, wrapped |-> <<>>, derived |-> <<>>,
           result |-> 0, results |-> <<>>, total |-> 0, aborted |-> None]

(* The world the operations act on: the variables, plus the return value   *)
(* and the pending exception of the call just made, and the name of the    *)
(* top-level call that is running (ctx).                                   *)
World(ctx) ==
  [promises |-> promises, microtasks |-> microtasks, thenables |-> thenables,
   called |-> called, subs |-> subs, comb |-> comb, log |-> log, order |-> order,
   ret |-> Undefined, thrown |-> None, ctx |-> ctx]

Returning(W, v) == [W EXCEPT !.ret = v]
Caught(W)       == [W EXCEPT !.thrown = None]

----------------------------------------------------------------------------
(* initValue, src/promise.js:99-106, with the closure of the call that     *)
(* constructs the promise: the function that made it (by) and, for a       *)
(* promise made by then, the parent (this), the two handlers after         *)
(* defaulting, and the parent's state at the call.                         *)
initValue(by, parent, onFulfilled, onRejected, atCall) ==
  [by |-> by, state |-> PEDDING, value |-> Null, reason |-> Null,
   fulfilledCallbacks |-> <<>>, rejectedCallbacks |-> <<>>,
   parent |-> parent, onFulfilled |-> onFulfilled, onRejected |-> onRejected,
   atCall |-> atCall]

Plain(by) == initValue(by, 0, NotAFunction, NotAFunction, "none")

(* A mutant: the host puts the task at the front of its queue. *)
queueMicrotaskLifo(W, task) == [W EXCEPT !.microtasks = <<task>> \o @]

(* queueMicrotask: the host appends the task to its FIFO queue. *)
queueMicrotask(W, task) == [W EXCEPT !.microtasks = Append(@, task)]

RECURSIVE RunTask(_, _)
RECURSIVE resolvePromise(_, _, _)

(* A mutant: the thunk runs the handler inline instead of queueing it. *)
onFulfilledInline(W, d) == RunTask(W, [kind |-> FULFILLED, promise |-> d])

(* onFulfilledMicrotask of the then call that made d, src/promise.js:169-176 *)
onFulfilledMicrotask(W, d) == queueMicrotask(W, [kind |-> FULFILLED, promise |-> d])

(* onRejectedMicrotask of the then call that made d, src/promise.js:178-185 *)
onRejectedMicrotask(W, d) == queueMicrotask(W, [kind |-> REJECTED, promise |-> d])

(* Calling a thunk stored in fulfilledCallbacks / rejectedCallbacks. *)
CallThunk(W, cb) ==
  IF cb.kind = FULFILLED THEN onFulfilledMicrotask(W, cb.promise)
                         ELSE onRejectedMicrotask(W, cb.promise)

(* while (this.fulfilledCallbacks.length) this.fulfilledCallbacks.shift()(); *)
(* src/promise.js:125-127                                                    *)
RECURSIVE drainFulfilled(_, _)
drainFulfilled(W, p) ==
  LET q == W.promises[p].fulfilledCallbacks IN
  IF q = <<>> THEN W
  ELSE drainFulfilled(
         CallThunk([W EXCEPT !.promises[p].fulfilledCallbacks = Tail(q)], Head(q)), p)

(* while (this.rejectedCallbacks.length) this.rejectedCallbacks.shift()();   *)
(* src/promise.js:143-145                                                    *)
RECURSIVE drainRejected(_, _)
drainRejected(W, p) ==
  LET q == W.promises[p].rejectedCallbacks IN
  IF q = <<>> THEN W
  ELSE drainRejected(
         CallThunk([W EXCEPT !.promises[p].rejectedCallbacks = Tail(q)], Head(q)), p)

(* A mutant: resolve without the test of the state. *)
resolveUnguarded(W, p, value) ==
  drainFulfilled([W EXCEPT !.promises[p].value = value,
                           !.promises[p].state = FULFILLED,
                           !.order = Append(@, p)], p)

(* A mutant: reject without the test of the state. *)
rejectUnguarded(W, p, reason) ==
  drainRejected([W EXCEPT !.promises[p].reason = reason,
                          !.promises[p].state = REJECTED,
                          !.order = Append(@, p)], p)

(* The instance entry point resolve, src/promise.js:120-129 *)
resolve(W, p, value) ==
  IF W.promises[p].state = PEDDING
  THEN drainFulfilled([W EXCEPT !.promises[p].value = value,
                                !.promises[p].state = FULFILLED,
                                !.order = Append(@, p)], p)
  ELSE W

(* The instance entry point reject, src/promise.js:139-147 *)
reject(W, p, reason) ==
  IF W.promises[p].state = PEDDING
  THEN drainRejected([W EXCEPT !.promises[p].reason = reason,
                               !.promises[p].state = REJECTED,
                               !.order = Append(@, p)], p)
  ELSE W

(* The dispatch of then's executor, src/promise.js:187-197, on the new     *)
(* promise d whose parent is this.                                         *)
Dispatch(W, this, d) ==
  LET s == W.promises[this].state IN
  IF s = FULFILLED THEN onFulfilledMicrotask(W, d)
  ELSE IF s = REJECTED THEN onRejectedMicrotask(W, d)
  ELSE [W EXCEPT
          !.promises[this].fulfilledCallbacks = Append(@, [kind |-> FULFILLED, promise |-> d]),
          !.promises[this].rejectedCallbacks  = Append(@, [kind |-> REJECTED, promise |-> d])]

(* A mutant: a pending parent's thunks are put at the front of the queues. *)
thenUnshift(W, this, onFulfilled, onRejected) ==
  LET d  == Len(W.promises) + 1
      f  == IF ~isFunction(onFulfilled) THEN Handler("value => value", Undefined, 0)
                                           ELSE onFulfilled
      r  == IF ~isFunction(onRejected) THEN Handler("reason => { throw reason }", Undefined, 0)
                                          ELSE onRejected
      s  == W.promises[this].state
      W1 == [W EXCEPT !.promises = Append(@, initValue("then", this, f, r, s))]
  IN Returning(
       IF s = PEDDING
       THEN [W1 EXCEPT
               !.promises[this].fulfilledCallbacks = <<[kind |-> FULFILLED, promise |-> d]>> \o @,
               !.promises[this].rejectedCallbacks  = <<[kind |-> REJECTED, promise |-> d]>> \o @]
       ELSE Dispatch(W1, this, d),
       P(d))

(* Promise.prototype.then, src/promise.js:156-201: returns the new promise. *)
then(W, this, onFulfilled, onRejected) ==
  LET d  == Len(W.promises) + 1
      f  == IF ~isFunction(onFulfilled) THEN Handler("value => value", Undefined, 0)
                                           ELSE onFulfilled
      r  == IF ~isFunction(onRejected) THEN Handler("reason => { throw reason }", Undefined, 0)
                                          ELSE onRejected
      W1 == [W EXCEPT !.promises = Append(@, initValue("then", this, f, r, W.promises[this].state))]
  IN Returning(Dispatch(W1, this, d), P(d))

(* Promise.prototype.catch, src/promise.js:209-211 *)
catch(W, this, onRejected) == then(W, this, NullHandler, onRejected)

(* Promise.prototype.finally, src/promise.js:220-235: the two arrow        *)
(* functions handed to then close over onFinallied.                        *)
finally(W, this, onFinallied) ==
  LET f == IF ~isFunction(onFinallied) THEN Handler("() => {}", Undefined, 0)
                                       ELSE onFinallied
  IN then(W, this, Handler("finally: value =>", f, 0), Handler("finally: reason =>", f, 0))

----------------------------------------------------------------------------
(* Foreign thenables.  thenables[t] says what reading t.then gives          *)
(* ("function", "throws": the getter throws e, "absent": not callable) and  *)
(* the signals the then member makes before it returns (sync): calls of its *)
(* first argument, calls of its second argument, and at most one throw,     *)
(* which ends it.  After it returned, the environment may call the two      *)
(* callbacks again (action Later).                                          *)
Signal(s, v) == [s |-> s, v |-> v]

Thenable(member, e, sync) == [member |-> member, e |-> e, sync |-> sync]

(* The callbacks handed to a foreign then: c names the function, promise    *)
(* and g (the called flag) are what it closes over.                         *)
Callback(c, promise, g) == [c |-> c, promise |-> promise, g |-> g]

(* History: the signals of subscription s, in order. *)
Note(W, s, sig) == [W EXCEPT !.subs[s].signals = Append(@, sig)]

(* A mutant: the second callback of resolvePromise without its guard. *)
CallUnguardedReject(W, cb, v) ==
  IF cb.c = "y => resolvePromise" THEN
    IF W.called[cb.g] THEN W
    ELSE resolvePromise([W EXCEPT !.called[cb.g] = TRUE], cb.promise, v)
  ELSE IF cb.c = "r => reject" THEN
    reject([W EXCEPT !.called[cb.g] = TRUE], cb.promise, v)
  ELSE IF cb.c = "resolve" THEN resolve(W, cb.promise, v)
  ELSE reject(W, cb.promise, v)

(* A call of one of the callbacks: the two guarded arrow functions of       *)
(* resolvePromise, src/promise.js:51-60, or the resolve / reject entry      *)
(* points of the wrapper that Promise.resolve makes, src/promise.js:254.    *)
Call(W, cb, v) ==
  IF cb.c = "y => resolvePromise" THEN
    IF W.called[cb.g] THEN W
    ELSE resolvePromise([W EXCEPT !.called[cb.g] = TRUE], cb.promise, v)
  ELSE IF cb.c = "r => reject" THEN
    IF W.called[cb.g] THEN W
    ELSE reject([W EXCEPT !.called[cb.g] = TRUE], cb.promise, v)
  ELSE IF cb.c = "resolve" THEN resolve(W, cb.promise, v)
  ELSE reject(W, cb.promise, v)

(* The delivery of one signal of subscription s. *)
Deliver(W, s, sig) ==
  LET W1 == Note(W, s, sig) IN
  IF sig.s = "onFulfill" THEN Call(W1, W1.subs[s].onFulfill, sig.v)
                         ELSE Call(W1, W1.subs[s].onReject, sig.v)

(* The body of the foreign then member: its signals, in order. *)
RECURSIVE RunSignals(_, _, _)
RunSignals(W, s, sync) ==
  IF sync = <<>> THEN W
  ELSE IF Head(sync).s = "throw"
       THEN [Note(W, s, Head(sync)) EXCEPT !.thrown = Head(sync).v]
       ELSE RunSignals(Deliver(W, s, Head(sync)), s, Tail(sync))

(* then.call(x, onFulfill, onReject) on the foreign thenable t,             *)
(* src/promise.js:49 and src/promise.js:254.                                *)
ThenCall(W, t, onFulfill, onReject) ==
  LET s  == Len(W.subs) + 1
      W1 == [W EXCEPT !.subs = Append(@, [thenable |-> t, onFulfill |-> onFulfill,
                                          onReject |-> onReject, fired |-> 0,
                                          signals |-> <<>>])]
  IN RunSignals(W1, s, W.thenables[t].sync)

(* The foreign branch of resolvePromise, src/promise.js:32-70 *)
ResolveThenable(W, promise, x) ==
  LET th == W.thenables[x.n] IN
  IF th.member = "throws" THEN reject(W, promise, th.e)
  ELSE IF th.member = "function" THEN
    LET g  == Len(W.called) + 1
        W1 == ThenCall([W EXCEPT !.called = Append(@, FALSE)], x.n,
                       Callback("y => resolvePromise", promise, g),
                       Callback("r => reject", promise, g))
    IN IF W1.thrown = None THEN W1
       ELSE IF W1.called[g] THEN Caught(W1)
       ELSE reject([Caught(W1) EXCEPT !.called[g] = TRUE], promise, W1.thrown)
  ELSE resolve(W, promise, x)

(* A mutant: resolvePromise without the branch for promises of this class. *)
resolvePromiseNoUnwrap(W, promise, x) ==
  IF x = P(promise) THEN reject(W, promise, CycleError)
  ELSE IF x.t = "thenable" THEN ResolveThenable(W, promise, x)
  ELSE resolve(W, promise, x)

(* A mutant: resolvePromise without the test promise === x. *)
resolvePromiseNoCycleTest(W, promise, x) ==
  IF x.t = "Promise" THEN
    then(W, x.n, Handler("value => resolvePromise", Undefined, promise),
                 Handler("reason => reject", Undefined, promise))
  ELSE IF x.t = "thenable" THEN ResolveThenable(W, promise, x)
  ELSE resolve(W, promise, x)

(* resolvePromise(promise, x, resolve, reject), src/promise.js:16-76;      *)
(* resolve and reject are always the entry points of promise.               *)
resolvePromise(W, promise, x) ==
  IF x = P(promise) THEN reject(W, promise, CycleError)
  ELSE IF x.t = "Promise" THEN
    then(W, x.n, Handler("value => resolvePromise", Undefined, promise),
                 Handler("reason => reject", Undefined, promise))
  ELSE IF x.t = "thenable" THEN ResolveThenable(W, promise, x)
  ELSE resolve(W, promise, x)

----------------------------------------------------------------------------
(* new Promise(resolve => resolve(value)), src/promise.js:258-260 *)
Wrap(W, value) ==
  LET p == Len(W.promises) + 1 IN
  Returning(resolve([W EXCEPT !.promises = Append(@, Plain("Promise.resolve"))], p, value),
            P(p))

(* static resolve(value), src/promise.js:244-261.  Reading value.then is   *)
(* outside any try block: a getter that throws throws out of the call.     *)
(* In the thenable branch the then member runs inside the constructor's    *)
(* try block, src/promise.js:88-92.                                        *)
PromiseResolve(W, value) ==
  IF value.t = "Promise" THEN Returning(W, value)
  ELSE IF value.t = "thenable" THEN
    LET th == W.thenables[value.n] IN
    IF th.member = "throws" THEN [W EXCEPT !.thrown = th.e]
    ELSE IF th.member = "function" THEN
      LET p  == Len(W.promises) + 1
          W1 == ThenCall([W EXCEPT !.promises = Append(@, Plain("Promise.resolve"))],
                         value.n, Callback("resolve", p, 0), Callback("reject", p, 0))
      IN Returning(IF W1.thrown = None THEN W1 ELSE reject(Caught(W1), p, W1.thrown),
                   P(p))
    ELSE Wrap(W, value)
  ELSE Wrap(W, value)

(* results[i] = v on a JavaScript array: an index past the end leaves holes. *)
Hole == [t |-> "hole", n |-> 0]
ArraySet(a, i, v) ==
  IF i <= Len(a) THEN [a EXCEPT ![i] = v]
  ELSE a \o [k \in 1..(i - Len(a) - 1) |-> Hole] \o <<v>>

(* A mutant: the test of completion reads results.length instead of total. *)
allOnFulfilledByLength(W, i, value) ==
  LET W1 == [W EXCEPT !.comb.results = ArraySet(@, i, value), !.comb.total = @ + 1] IN
  Returning(IF Len(W1.comb.results) = Len(W1.comb.inputs)
            THEN resolve(W1, W1.comb.result, Results) ELSE W1, Undefined)

(* The fulfilment handler of Promise.all for input i, src/promise.js:299-307 *)
allOnFulfilled(W, i, value) ==
  LET W1 == [W EXCEPT !.comb.results = ArraySet(@, i, value), !.comb.total = @ + 1] IN
  Returning(IF W1.comb.total = Len(W1.comb.inputs)
            THEN resolve(W1, W1.comb.result, Results) ELSE W1, Undefined)

(* A mutant: the rejection handler counts the input and waits for the rest. *)
allOnRejectedCounting(W, reason) ==
  LET W1 == [W EXCEPT !.comb.total = @ + 1] IN
  Returning(IF W1.comb.total = Len(W1.comb.inputs)
            THEN reject(W1, W1.comb.result, reason) ELSE W1, Undefined)

(* The rejection handler of Promise.all, src/promise.js:307-310 *)
allOnRejected(W, reason) == Returning(reject(W, W.comb.result, reason), Undefined)

(* The fulfilment handler of Promise.allSettled, src/promise.js:357-362 *)
allSettledOnFulfilled(W, i, value) ==
  LET W1 == [W EXCEPT !.comb.results = ArraySet(@, i, [status |-> FULFILLED, value |-> value]),
                      !.comb.total = @ + 1] IN
  Returning(IF W1.comb.total = Len(W1.comb.inputs)
            THEN resolve(W1, W1.comb.result, Results) ELSE W1, Undefined)

(* The rejection handler of Promise.allSettled, src/promise.js:362-367 *)
allSettledOnRejected(W, i, reason) ==
  LET W1 == [W EXCEPT !.comb.results = ArraySet(@, i, [status |-> REJECTED, reason |-> reason]),
                      !.comb.total = @ + 1] IN
  Returning(IF W1.comb.total = Len(W1.comb.inputs)
            THEN resolve(W1, W1.comb.result, Results) ELSE W1, Undefined)

(* new AggregateError(), src/promise.js:390, is a call of the host's         *)
(* constructor without its errors argument.  ECMAScript's constructor       *)
(* iterates that argument and throws a TypeError on undefined ("throws"; a  *)
(* host without the global throws a ReferenceError at the same place); a    *)
(* host whose AggregateError takes no argument gives an empty aggregate     *)
(* ("constructs").                                                          *)
Hosts       == {"throws", "constructs"}
NotIterable == [t |-> "TypeError", n |-> 1]
Aggregate   == [t |-> "AggregateError", n |-> 0]

(* new Error(reason), src/promise.js:401: a new Error object whose message *)
(* is the string of reason.                                                *)
NewError(reason) == [t |-> "Error", message |-> reason]

(* The fulfilment handler of Promise.any, src/promise.js:396-399 *)
anyOnFulfilled(W, value) == Returning(resolve(W, W.comb.result, value), Undefined)

(* The rejection handler of Promise.any for input i, src/promise.js:399-404: *)
(* results[i] is a property of the aggregate.                                *)
anyOnRejected(W, i, reason) ==
  LET W1 == [W EXCEPT !.comb.results = ArraySet(@, i, NewError(reason)),
                      !.comb.total = @ + 1] IN
  Returning(IF W1.comb.total = Len(W1.comb.inputs)
            THEN reject(W1, W1.comb.result, Aggregate) ELSE W1, Undefined)

RECURSIVE Invoke(_, _, _)

(* onFinallied(), src/promise.js:232-233: the call is noted in log, under  *)
(* the promise of the task that makes it.                                  *)
NoArgument == [t |-> "no argument", n |-> 0]
CallFinallied(W, onFinallied, arg) ==
  Invoke([W EXCEPT !.log = Append(@, [promise |-> W.log[Len(W.log)].promise,
                                      parent |-> W.log[Len(W.log)].parent,
                                      kind |-> "onFinallied", arg |-> NoArgument,
                                      ctx |-> W.ctx])],
         onFinallied, Undefined)

(* value => P.resolve(onFinallied()).then(() => value) and                 *)
(* reason => P.resolve(onFinallied()).then(() => { throw reason }),        *)
(* src/promise.js:232-233; after names the function handed to then.        *)
finallyHandler(W, onFinallied, arg, after) ==
  LET W1 == CallFinallied(W, onFinallied, arg) IN
  IF W1.thrown # None THEN W1
  ELSE LET W2 == PromiseResolve(W1, W1.ret) IN
       IF W2.thrown # None THEN W2
       ELSE then(W2, W2.ret.n, Handler(after, arg, 0), NotAFunction)

(* A call of a handler with its argument: the world after it, with what it *)
(* returned (ret) or threw (thrown).                                       *)
Invoke(W, h, arg) ==
  CASE h.h = "value => value"             -> Returning(W, arg)
    [] h.h = "reason => { throw reason }" -> [W EXCEPT !.thrown = arg]
    [] h.h = "return"                     -> Returning(W, h.a)
    [] h.h = "throw"                      -> [W EXCEPT !.thrown = h.a]
    [] h.h = "value => resolvePromise"    -> Returning(resolvePromise(W, h.i, arg), Undefined)
    [] h.h = "reason => reject"           -> Returning(reject(W, h.i, arg), Undefined)
    [] h.h = "resolve"                    -> Returning(resolve(W, h.i, arg), Undefined)
    [] h.h = "reject"                     -> Returning(reject(W, h.i, arg), Undefined)
    [] h.h = "all: value =>"              -> allOnFulfilled(W, h.i, arg)
    [] h.h = "all: reason =>"             -> allOnRejected(W, arg)
    [] h.h = "allSettled: value =>"       -> allSettledOnFulfilled(W, h.i, arg)
    [] h.h = "allSettled: reason =>"      -> allSettledOnRejected(W, h.i, arg)
    [] h.h = "any: value =>"              -> anyOnFulfilled(W, arg)
    [] h.h = "any: reason =>"             -> anyOnRejected(W, h.i, arg)
    [] h.h = "() => {}"                   -> Returning(W, Undefined)
    [] h.h = "finally: value =>"          -> finallyHandler(W, h.a, arg, "() => value")
    [] h.h = "finally: reason =>"         -> finallyHandler(W, h.a, arg, "() => { throw reason }")
    [] h.h = "() => value"                -> Returning(W, h.a)
    [] h.h = "() => { throw reason }"     -> [W EXCEPT !.thrown = h.a]

(* The task that onFulfilledMicrotask / onRejectedMicrotask queue,         *)
(* src/promise.js:169-176 and 178-185: the handler of the then call that   *)
(* made task.promise, on the parent's value or reason, in a try block.     *)
RunTask(W, task) ==
  LET d   == task.promise
      par == W.promises[d].parent
      h   == IF task.kind = FULFILLED THEN W.promises[d].onFulfilled
                                      ELSE W.promises[d].onRejected
      arg == IF task.kind = FULFILLED THEN W.promises[par].value
                                      ELSE W.promises[par].reason
      W1  == [W EXCEPT !.log = Append(@, [promise |-> d, parent |-> par, kind |-> task.kind,
                                          arg |-> arg, ctx |-> W.ctx])]
      W2  == Invoke(W1, h, arg)
  IN IF W2.thrown = None THEN resolvePromise(W2, d, W2.ret)
     ELSE reject(Caught(W2), d, W2.thrown)

----------------------------------------------------------------------------
(* The two handlers a combinator hands to then for its i-th input. *)
OnFulfilledOf(c, i) ==
  CASE c.kind = "all"        -> Handler("all: value =>", Undefined, i)
    [] c.kind = "race"       -> Handler("resolve", Undefined, c.result)
    [] c.kind = "allSettled" -> Handler("allSettled: value =>", Undefined, i)
    [] c.kind = "any"        -> Handler("any: value =>", Undefined, i)

OnRejectedOf(c, i) ==
  CASE c.kind = "all"        -> Handler("all: reason =>", Undefined, i)
    [] c.kind = "race"       -> Handler("reject", Undefined, c.result)
    [] c.kind = "allSettled" -> Handler("allSettled: reason =>", Undefined, i)
    [] c.kind = "any"        -> Handler("any: reason =>", Undefined, i)

(* promisesLists.forEach((p, i) => this.resolve(p).then(...)) from index i *)
(* on, src/promise.js:297-311, 329-332, 356-368, 395-405.  An exception    *)
(* thrown by                                                               *)
(* this.resolve(p) ends the loop and leaves the executor.                  *)
RECURSIVE ForEach(_, _)
ForEach(W, i) ==
  IF i > Len(W.comb.inputs) THEN W
  ELSE LET W1 == PromiseResolve(W, W.comb.inputs[i]) IN
       IF W1.thrown # None THEN W1
       ELSE LET W2 == then(W1, W1.ret.n, OnFulfilledOf(W1.comb, i), OnRejectedOf(W1.comb, i))
            IN ForEach([W2 EXCEPT !.comb.wrapped = Append(@, W1.ret.n),
                                  !.comb.derived = Append(@, W2.ret.n)], i + 1)

(* new this(executor) of a combinator: the constructor, src/promise.js:79-93, *)
(* runs the executor in a try block and rejects with what it throws.          *)
Construct(W, kind, inputs) ==
  LET r  == Len(W.promises) + 1
      W1 == ForEach([W EXCEPT !.promises = Append(@, Plain(kind)),
                              !.comb = [NoComb EXCEPT !.kind = kind, !.inputs = inputs,
                                                      !.result = r]], 1)
  IN Returning(IF W1.thrown = None THEN W1
               ELSE reject([Caught(W1) EXCEPT !.comb.aborted = W1.thrown], r, W1.thrown),
               P(r))

(* The empty input: return this.resolve(results), src/promise.js:294, 353 *)
Empty(W, kind) ==
  LET W1 == PromiseResolve([W EXCEPT !.comb = [NoComb EXCEPT !.kind = kind]], Results)
  IN [W1 EXCEPT !.comb.result = W1.ret.n]

(* static all(promises), src/promise.js:284-313 *)
PromiseAll(W, inputs) ==
  IF inputs = <<>> THEN Empty(W, "all") ELSE Construct(W, "all", inputs)

(* static race(promises), src/promise.js:322-334 *)
PromiseRace(W, inputs) == Construct(W, "race", inputs)

(* static allSettled(promises), src/promise.js:344-370 *)
PromiseAllSettled(W, inputs) ==
  IF inputs = <<>> THEN Empty(W, "allSettled") ELSE Construct(W, "allSettled", inputs)

----------------------------------------------------------------------------
(* An executor handed to the constructor: whether it is a function, the    *)
(* calls it makes of its two arguments, in order, and what it throws in    *)
(* the end (None: it returns).                                             *)
Executor(callable, calls, throws) == [callable |-> callable, calls |-> calls, throws |-> throws]

NotAFunctionError == [t |-> "TypeError", n |-> 2]

(* executor(this.resolve, this.reject), src/promise.js:89: its calls on p. *)
RECURSIVE RunCalls(_, _, _)
RunCalls(W, p, calls) ==
  IF calls = <<>> THEN W
  ELSE RunCalls(IF Head(calls).call = FULFILLED THEN resolve(W, p, Head(calls).payload)
                                                ELSE reject(W, p, Head(calls).payload),
                p, Tail(calls))

(* A mutant: the constructor without its try block. *)
NewNoTry(W, executor) ==
  IF ~executor.callable THEN [W EXCEPT !.thrown = NotAFunctionError]
  ELSE LET p  == Len(W.promises) + 1
           W1 == RunCalls([W EXCEPT !.promises = Append(@, Plain("new"))], p, executor.calls)
       IN Returning([W1 EXCEPT !.thrown = executor.throws], P(p))

(* new Promise(executor), src/promise.js:79-93 *)
New(W, executor) ==
  IF ~executor.callable THEN [W EXCEPT !.thrown = NotAFunctionError]
  ELSE LET p  == Len(W.promises) + 1
           W1 == RunCalls([W EXCEPT !.promises = Append(@, Plain("new"))], p, executor.calls)
       IN Returning(IF executor.throws = None THEN W1 ELSE reject(W1, p, executor.throws),
                    P(p))

(* static reject(reason), src/promise.js:270-275 *)
PromiseReject(W, reason) ==
  LET p == Len(W.promises) + 1 IN
  Returning(reject([W EXCEPT !.promises = Append(@, Plain("Promise.reject"))], p, reason),
            P(p))

(* static any(promises), src/promise.js:381-407, on a host of Hosts *)
PromiseAny(W, host, inputs) ==
  LET W0 == [W EXCEPT !.comb = [NoComb EXCEPT !.kind = "any", !.inputs = inputs]] IN
  IF host = "throws" THEN [W0 EXCEPT !.thrown = NotIterable]
  ELSE IF inputs = <<>>
       THEN LET W1 == PromiseReject(W0, Aggregate) IN [W1 EXCEPT !.comb.result = W1.ret.n]
       ELSE Construct(W, "any", inputs)

----------------------------------------------------------------------------
(* The actions: one whole call of the program's interface, or one whole    *)
(* microtask, or one later callback of a foreign thenable.                 *)

Commit(W) ==
  /\ promises'   = W.promises
  /\ microtasks' = W.microtasks
  /\ called'     = W.called
  /\ subs'       = W.subs
  /\ comb'       = W.comb
  /\ log'        = W.log
  /\ order'      = W.order
  /\ raised'     = W.thrown
  /\ UNCHANGED thenables

Ids == DOMAIN promises

Deferreds == {p \in Ids : promises[p].by = "deferred"}

(* The then calls the program makes itself (the others are made by         *)
(* resolvePromise and by the combinators).                                 *)
UserHandlers == {"value => value", "reason => { throw reason }", "return", "throw"}
UserThens ==
  {p \in Ids : promises[p].by = "then" /\ promises[p].onFulfilled.h \in UserHandlers}

(* Promise.deferred(), src/promise.js:417-424: a pending promise whose     *)
(* resolve and reject are handed out.                                      *)
Deferred ==
  /\ \E W \in {[World("deferred") EXCEPT !.promises = Append(@, Plain("deferred"))]} : Commit(W)
  /\ UNCHANGED entries

(* dfd.resolve(value) *)
EntryResolve(p, value) ==
  /\ \E W \in {resolve(World("resolve"), p, value)} : Commit(W)
  /\ entries' = Append(entries, [promise |-> p, call |-> FULFILLED, payload |-> value])

(* dfd.reject(reason) *)
EntryReject(p, reason) ==
  /\ \E W \in {reject(World("reject"), p, reason)} : Commit(W)
  /\ entries' = Append(entries, [promise |-> p, call |-> REJECTED, payload |-> reason])

(* p.then(onFulfilled, onRejected) *)
Then(p, onFulfilled, onRejected) ==
  /\ \E W \in {then(World("then"), p, onFulfilled, onRejected)} : Commit(W)
  /\ UNCHANGED entries

(* p.catch(onRejected) *)
Catch(p, onRejected) ==
  /\ \E W \in {catch(World("catch"), p, onRejected)} : Commit(W)
  /\ UNCHANGED entries

(* Promise.resolve(value); the call and what it returned are noted in entries. *)
StaticResolve(value) ==
  \E W \in {PromiseResolve(World("Promise.resolve"), value)} :
    /\ Commit(W)
    /\ entries' = Append(entries, [promise |-> 0, call |-> "Promise.resolve", payload |-> value,
                                   ret |-> IF W.thrown = None THEN W.ret ELSE None])

(* The host takes the first task of the microtask queue and runs it. *)
RunMicrotask ==
  /\ microtasks # <<>>
  /\ \E W \in {RunTask([World("microtask") EXCEPT !.microtasks = Tail(@)], Head(microtasks))} :
        Commit(W)
  /\ UNCHANGED entries

(* A foreign thenable calls one of the callbacks it was given, after its   *)
(* then member returned.                                                   *)
Later(s, sig) ==
  /\ \E W \in {Deliver([World("later") EXCEPT !.subs[s].fired = @ + 1], s, sig)} : Commit(W)
  /\ UNCHANGED entries

Empty0 ==
  /\ microtasks = <<>> /\ called = <<>> /\ subs = <<>>
  /\ comb = NoComb /\ log = <<>> /\ order = <<>> /\ entries = <<>>
  /\ raised = None

(* The payload of the n-th entry call is the number n or an older deferred   *)
(* promise; its reason is the error n.  (A promise fulfilled with itself, or *)
(* with a ring of promises, makes resolvePromise subscribe again in every    *)
(* microtask, src/promise.js:24-25: the payload is an older promise so that  *)
(* the heap stays finite.)                                                   *)
Payloads(p) == {Num(Len(entries) + 1)} \cup {P(q) : q \in {d \in Deferreds : d < p}}
Reasons     == {Err(Len(entries) + 1)}

(* The handler pairs of the program's then calls: none, or one that        *)
(* returns and one that throws.                                            *)
HandlerPairs == {<<NotAFunction, NotAFunction>>, <<Return(Num(0)), Throw(Err(0))>>}

----------------------------------------------------------------------------
(* Spec: deferred promises settled through their exposed entry points,     *)
(* with any payload, chained with then, and the microtask queue.           *)

Init == Empty0 /\ promises = <<>> /\ thenables = <<>>

NewDeferred == Cardinality(Deferreds) < MaxDeferred /\ Deferred
CallResolve ==
  /\ Len(entries) < MaxEntry
  /\ \E p \in Deferreds : \E v \in Payloads(p) : EntryResolve(p, v)
CallReject ==
  /\ Len(entries) < MaxEntry
  /\ \E p \in Deferreds, r \in Reasons : EntryReject(p, r)
CallThen ==
  /\ Cardinality(UserThens) < MaxChain
  /\ \E p \in Ids, h \in HandlerPairs : Then(p, h[1], h[2])

Next == NewDeferred \/ CallResolve \/ CallReject \/ CallThen \/ RunMicrotask

Spec == Init /\ [][Next]_vars

(* The calls of the entry points of p, in order. *)
EntriesOf(p) == SelectSeq(entries, LAMBDA e : e.promise = p)

Payload(p) == IF promises[p].state = FULFILLED THEN promises[p].value ELSE promises[p].reason

(* C1. Single settlement: a promise that is not pending keeps its state,   *)
(* value and reason in every step, whatever entry point is called with     *)
(* whatever payload; and a deferred promise is pending until the first     *)
(* call of one of its entry points, and has that call's outcome and        *)
(* payload ever after.                                                     *)
C1_SingleSettlement ==
  /\ [](\A p \in Deferreds :
          IF EntriesOf(p) = <<>> THEN promises[p].state = PEDDING
          ELSE /\ promises[p].state = EntriesOf(p)[1].call
               /\ Payload(p) = EntriesOf(p)[1].payload)
  /\ [][\A p \in Ids :
          promises[p].state # PEDDING =>
            /\ promises'[p].state  = promises[p].state
            /\ promises'[p].value  = promises[p].value
            /\ promises'[p].reason = promises[p].reason]_vars

(* A rejected promise whose resolve was called afterwards, with another payload. *)
C1_Witness ==
  \E p \in Deferreds :
    /\ Len(EntriesOf(p)) >= 2
    /\ EntriesOf(p)[1].call = REJECTED
    /\ EntriesOf(p)[2].call = FULFILLED
    /\ promises[p].state = REJECTED
    /\ promises[p].reason = EntriesOf(p)[1].payload

(* C4. A call of the resolve entry point with a promise as payload never   *)
(* leaves the target fulfilled with that promise itself as its value.      *)
C4_NeverFulfilledWithPromise ==
  \A k \in DOMAIN entries :
    (entries[k].call = FULFILLED /\ entries[k].payload.t = "Promise") =>
      ~(/\ promises[entries[k].promise].state = FULFILLED
        /\ promises[entries[k].promise].value = entries[k].payload)

----------------------------------------------------------------------------
(* SpecOrder: one deferred promise, the then calls made on it and on the   *)
(* promises they return, before and after it is settled.                   *)

InitOrder == Empty0 /\ promises = <<Plain("deferred")>> /\ thenables = <<>>

SettleResolve ==
  /\ Len(entries) < MaxSettle
  /\ \E p \in Deferreds : \E v \in Payloads(p) : EntryResolve(p, v)
SettleReject ==
  /\ Len(entries) < MaxSettle
  /\ \E p \in Deferreds, r \in Reasons : EntryReject(p, r)
Chain ==
  /\ Cardinality(UserThens) < MaxThen
  /\ \E p \in Ids, h \in HandlerPairs : Then(p, h[1], h[2])

NextOrder == SettleResolve \/ SettleReject \/ Chain \/ RunMicrotask

SpecOrder == InitOrder /\ [][NextOrder]_vars

(* C2. Every handler invocation happens in a microtask: none during a then *)
(* call, none during a call of resolve or reject.                          *)
C2_HandlersAsynchronous ==
  \A k \in DOMAIN log : log[k].ctx = "microtask"

(* A handler has run whose then call found the parent settled, and one     *)
(* whose then call found it pending.                                       *)
C2_Witness ==
  \E j, k \in DOMAIN log :
    /\ promises[log[j].promise].atCall = PEDDING
    /\ promises[log[k].promise].atCall # PEDDING

(* C3. The handlers of the then calls made on one promise run in the order *)
(* of the calls (promise ids are given in the order of the calls).         *)
C3_FifoOrder ==
  \A j, k \in DOMAIN log :
    (j < k /\ log[j].parent = log[k].parent) => log[j].promise < log[k].promise

(* Three then calls made on one pending promise have run their handlers. *)
C3_Witness ==
  \E i, j, k \in DOMAIN log :
    /\ i < j /\ j < k
    /\ log[i].parent = log[j].parent /\ log[j].parent = log[k].parent
    /\ \A m \in {i, j, k} : promises[log[m].promise].atCall = PEDDING

----------------------------------------------------------------------------
(* SpecCycle: one deferred promise and then calls whose handlers return    *)
(* the promise that the call itself returns (the next promise of the       *)
(* heap).  The host runs every queued microtask: WF on RunMicrotask.       *)

Self == P(Len(promises) + 1)

CyclePairs ==
  {<<Return(Self), NotAFunction>>, <<NotAFunction, Return(Self)>>,
   <<Return(Self), Return(Self)>>, <<NotAFunction, NotAFunction>>}

ChainCycle ==
  /\ Cardinality(UserThens) < MaxLoop
  /\ \E p \in Ids, h \in CyclePairs : Then(p, h[1], h[2])

(* The deferred promise is settled by one call of an entry point. *)
ResolveOnce == entries = <<>> /\ \E p \in Deferreds : \E v \in Payloads(p) : EntryResolve(p, v)
RejectOnce  == entries = <<>> /\ \E p \in Deferreds, r \in Reasons : EntryReject(p, r)

NextCycle == ResolveOnce \/ RejectOnce \/ ChainCycle \/ RunMicrotask

SpecCycle == InitOrder /\ [][NextCycle]_vars /\ WF_vars(RunMicrotask)

(* d was made by a then call, its parent is settled, and the handler of    *)
(* that call that matches the parent's outcome returns d itself.           *)
CycleCase(d) ==
  /\ d \in Ids
  /\ promises[d].by = "then"
  /\ \/ /\ promises[promises[d].parent].state = FULFILLED
        /\ promises[d].onFulfilled = Return(P(d))
     \/ /\ promises[promises[d].parent].state = REJECTED
        /\ promises[d].onRejected = Return(P(d))

CycleRejected(d) ==
  d \in Ids /\ promises[d].state = REJECTED /\ promises[d].reason = CycleError

(* C5. A promise whose handler returns that promise itself is, once the    *)
(* parent has settled, never fulfilled and eventually rejected with the    *)
(* TypeError of the cycle test.                                            *)
C5_CycleRejects ==
  \A d \in 1..(1 + MaxLoop) :
    /\ [](CycleCase(d) => promises[d].state # FULFILLED)
    /\ [](CycleCase(d) => <>CycleRejected(d))

(* The handler that returns its own promise has run and the promise is rejected. *)
C5_Witness ==
  \E d \in Ids :
    /\ CycleCase(d) /\ CycleRejected(d)
    /\ \E k \in DOMAIN log : log[k].promise = d

----------------------------------------------------------------------------
(* SpecThenable: two deferred promises and one foreign thenable.  The      *)
(* handlers of the program's one then call return the thenable; its then   *)
(* member makes any sequence of at most MaxSync signals before it returns  *)
(* (a throw ends it) and at most MaxLater callbacks afterwards.  Promise 1 *)
(* is the promise the thenable may pass to its first callback.             *)

Callbacks == {Signal("onFulfill", Num(5)), Signal("onFulfill", P(1)), Signal("onReject", Err(6))}
Thrown    == Signal("throw", Err(7))

RECURSIVE Scripts(_)
Scripts(n) ==
  IF n = 0 THEN {<<>>}
  ELSE Scripts(n - 1) \cup {<<c>> \o t : c \in Callbacks, t \in Scripts(n - 1)}
                      \cup {<<Thrown>>}

InitThenable ==
  /\ Empty0
  /\ promises = <<Plain("deferred"), Plain("deferred")>>
  /\ \E sync \in Scripts(MaxSync) : thenables = <<Thenable("function", None, sync)>>

ResolveFirst ==
  \E p \in Deferreds :
    /\ EntriesOf(p) = <<>>
    /\ \E v \in Payloads(p) : EntryResolve(p, v)
RejectFirst ==
  \E p \in Deferreds :
    /\ EntriesOf(p) = <<>>
    /\ \E r \in Reasons : EntryReject(p, r)
ChainThenable ==
  /\ UserThens = {}
  /\ \E p \in Deferreds : Then(p, Return(T(1)), Return(T(1)))
CallLater ==
  \E s \in DOMAIN subs :
    /\ subs[s].fired < MaxLater
    /\ \E sig \in Callbacks : Later(s, sig)

NextThenable == ResolveFirst \/ RejectFirst \/ ChainThenable \/ RunMicrotask \/ CallLater

SpecThenable == InitThenable /\ [][NextThenable]_vars

(* d has the outcome of q, or is pending (q pending, or d's handler not run yet). *)
Follows(d, q) ==
  /\ promises[q].state = PEDDING => promises[d].state = PEDDING
  /\ promises[d].state = FULFILLED =>
       promises[q].state = FULFILLED /\ promises[d].value = promises[q].value
  /\ promises[d].state = REJECTED =>
       promises[q].state = REJECTED /\ promises[d].reason = promises[q].reason

(* What the first signal alone makes of the promise d. *)
EffectOfFirst(d, sig) ==
  CASE sig.s = "onReject" -> promises[d].state = REJECTED /\ promises[d].reason = sig.v
    [] sig.s = "throw"    -> promises[d].state = REJECTED /\ promises[d].reason = sig.v
    [] sig.s = "onFulfill" /\ sig.v.t = "number" ->
         promises[d].state = FULFILLED /\ promises[d].value = sig.v
    [] sig.s = "onFulfill" /\ sig.v.t = "Promise" -> Follows(d, sig.v.n)

(* C6. For every invocation of a foreign then by resolvePromise, the       *)
(* promise being resolved is what the first signal of that invocation      *)
(* alone makes it, whatever signals follow; with no signal it is pending.  *)
C6_OneShotGuard ==
  \A s \in DOMAIN subs :
    subs[s].onFulfill.c = "y => resolvePromise" =>
      IF subs[s].signals = <<>>
      THEN promises[subs[s].onFulfill.promise].state = PEDDING
      ELSE EffectOfFirst(subs[s].onFulfill.promise, subs[s].signals[1])

(* onFulfill(y) with y pending, then onReject: the promise is still pending. *)
C6_Witness ==
  \E s \in DOMAIN subs :
    /\ subs[s].onFulfill.c = "y => resolvePromise"
    /\ Len(subs[s].signals) >= 2
    /\ subs[s].signals[1] = Signal("onFulfill", P(1))
    /\ subs[s].signals[2].s = "onReject"
    /\ promises[1].state = PEDDING
    /\ promises[subs[s].onFulfill.promise].state = PEDDING

----------------------------------------------------------------------------
(* SpecAll, SpecRace, SpecAllSettled: two deferred promises, one foreign   *)
(* thenable or plain object, and one call of the combinator on an input    *)
(* made of them and of a number.  The deferred promises are settled before *)
(* or after the call; the thenable calls back at most once after its then  *)
(* returned.                                                               *)

(* What the object of the input is: a thenable whose then calls back      *)
(* later, fulfils or rejects at once, or throws; an object whose then      *)
(* getter throws; an object without a callable then.                       *)
Behaviours ==
  {Thenable("function", None, <<>>),
   Thenable("function", None, <<Signal("onFulfill", Num(5))>>),
   Thenable("function", None, <<Signal("onReject", Err(6))>>),
   Thenable("function", None, <<Thrown>>),
   Thenable("throws", Err(8), <<>>),
   Thenable("absent", None, <<>>)}

InitComb ==
  /\ Empty0
  /\ promises = <<Plain("deferred"), Plain("deferred")>>
  /\ \E b \in Behaviours : thenables = <<b>>

Elements == {P(1), P(2), Num(9), T(1)}
Inputs   == UNION {[1..n -> Elements] : n \in 0..MaxInputs}

CallAll ==
  /\ comb.kind = "none"
  /\ \E inputs \in Inputs : \E W \in {PromiseAll(World("all"), inputs)} : Commit(W)
  /\ UNCHANGED entries

CallRace ==
  /\ comb.kind = "none"
  /\ \E inputs \in Inputs : \E W \in {PromiseRace(World("race"), inputs)} : Commit(W)
  /\ UNCHANGED entries

CallAllSettled ==
  /\ comb.kind = "none"
  /\ \E inputs \in Inputs : \E W \in {PromiseAllSettled(World("allSettled"), inputs)} : Commit(W)
  /\ UNCHANGED entries

CallbackLater ==
  \E s \in DOMAIN subs :
    /\ subs[s].fired = 0
    /\ \E sig \in {Signal("onFulfill", Num(5)), Signal("onReject", Err(6))} : Later(s, sig)

Environment == ResolveFirst \/ RejectFirst \/ RunMicrotask \/ CallbackLater

NextAll        == Environment \/ CallAll
NextRace       == Environment \/ CallRace
NextAllSettled == Environment \/ CallAllSettled

SpecAll        == InitComb /\ [][NextAll]_vars
SpecRace       == InitComb /\ [][NextRace]_vars
SpecAllSettled == InitComb /\ [][NextAllSettled]_vars


Settled(p) == promises[p].state # PEDDING
Outcome(p) == <<promises[p].state, Payload(p)>>

(* The place of the settled promise p in the order of settlements. *)
Pos(p) == CHOOSE k \in DOMAIN order : order[k] = p

Min(S) == CHOOSE k \in S : \A j \in S : k <= j

(* C7. When the promise of all, called on a non-empty input, is fulfilled, *)
(* every input is fulfilled and the value is the results array, as long as *)
(* the input, with the value of input i at index i (the number itself for  *)
(* a number).                                                              *)
C7_JoinAllPositions ==
  (comb.kind = "all" /\ comb.inputs # <<>> /\ promises[comb.result].state = FULFILLED) =>
    /\ Len(comb.wrapped) = Len(comb.inputs)
    /\ promises[comb.result].value = Results
    /\ Len(comb.results) = Len(comb.inputs)
    /\ \A i \in DOMAIN comb.inputs :
         /\ promises[comb.wrapped[i]].state = FULFILLED
         /\ comb.results[i] = promises[comb.wrapped[i]].value
         /\ comb.inputs[i].t = "number" => comb.results[i] = comb.inputs[i]

(* all is fulfilled on two promises of which the second was fulfilled first. *)
C7_Witness ==
  /\ comb.kind = "all" /\ Len(comb.wrapped) = 2
  /\ promises[comb.result].state = FULFILLED
  /\ comb.wrapped[1] # comb.wrapped[2]
  /\ promises[comb.derived[1]].atCall = PEDDING
  /\ Pos(comb.wrapped[2]) < Pos(comb.wrapped[1])

(* The runs of the rejection handlers of the combinator, as places in log. *)
Rejections ==
  {k \in DOMAIN log :
     /\ log[k].kind = REJECTED
     /\ \E i \in DOMAIN comb.derived : comb.derived[i] = log[k].promise}

(* C8. As soon as all has seen a rejection the promise it returned is      *)
(* rejected with the reason of the first one it saw, and stays so: the     *)
(* error thrown while it subscribes to its input, else the reason the      *)
(* first rejection handler ran with.                                       *)
C8_JoinAllShortCircuit ==
  comb.kind = "all" =>
    /\ comb.aborted # None =>
         /\ promises[comb.result].state = REJECTED
         /\ promises[comb.result].reason = comb.aborted
    /\ (comb.aborted = None /\ Rejections # {}) =>
         /\ promises[comb.result].state = REJECTED
         /\ promises[comb.result].reason = log[Min(Rejections)].arg

(* all is rejected while one of its inputs is still pending. *)
C8_Witness ==
  /\ comb.kind = "all" /\ comb.aborted = None /\ Rejections # {}
  /\ promises[comb.result].state = REJECTED
  /\ \E i \in DOMAIN comb.wrapped : ~Settled(comb.wrapped[i])

(* The promise of race has the outcome of an input that settled before     *)
(* every other settled input.                                              *)
FirstInTime ==
  \E i \in DOMAIN comb.wrapped :
    /\ Settled(comb.wrapped[i])
    /\ \A j \in DOMAIN comb.wrapped :
         Settled(comb.wrapped[j]) => Pos(comb.wrapped[i]) <= Pos(comb.wrapped[j])
    /\ Outcome(comb.result) = Outcome(comb.wrapped[i])

SettledAtCall == {i \in DOMAIN comb.derived : promises[comb.derived[i]].atCall # PEDDING}

C10_SettleAllNeverRejects ==
  comb.kind = "allSettled" => promises[comb.result].state # REJECTED

----------------------------------------------------------------------------
(* SpecAny: as SpecAll, for one call of Promise.any on any host. *)

CallAny ==
  /\ comb.kind = "none"
  /\ \E inputs \in Inputs, host \in Hosts :
       \E W \in {PromiseAny(World("any"), host, inputs)} : Commit(W)
  /\ UNCHANGED entries

NextAny == Environment \/ CallAny

SpecAny == InitComb /\ [][NextAny]_vars

(* The call of the combinator returned a promise. *)
Returned == comb.result \in Ids

(* C11. any, called on a non-empty input, returns a promise; when that     *)
(* promise is fulfilled it has the value of the input that was fulfilled   *)
(* first, and when it is rejected every input is rejected and entry i of   *)
(* the aggregate is the reason of input i.                                 *)
C11_FirstSuccess ==
  (comb.kind = "any" /\ comb.inputs # <<>>) =>
    /\ Returned
    /\ promises[comb.result].state = FULFILLED =>
         \E i \in DOMAIN comb.wrapped :
           /\ promises[comb.wrapped[i]].state = FULFILLED
           /\ promises[comb.result].value = promises[comb.wrapped[i]].value
           /\ \A j \in DOMAIN comb.wrapped :
                promises[comb.wrapped[j]].state = FULFILLED =>
                  Pos(comb.wrapped[i]) <= Pos(comb.wrapped[j])
    /\ promises[comb.result].state = REJECTED =>
         /\ promises[comb.result].reason = Aggregate
         /\ Len(comb.wrapped) = Len(comb.inputs)
         /\ Len(comb.results) = Len(comb.inputs)
         /\ \A i \in DOMAIN comb.inputs :
              /\ promises[comb.wrapped[i]].state = REJECTED
              /\ comb.results[i] = promises[comb.wrapped[i]].reason

(* C12. A combinator called on the empty input returns a promise: fulfilled *)
(* with the empty results array for all and allSettled, rejected for any,   *)
(* pending for race; it subscribes to nothing and queues no microtask.      *)
C12_EmptyInput ==
  (comb.kind # "none" /\ comb.inputs = <<>>) =>
    /\ Returned
    /\ comb.kind \in {"all", "allSettled"} =>
         /\ promises[comb.result].state = FULFILLED
         /\ promises[comb.result].value = Results
         /\ comb.results = <<>>
    /\ comb.kind = "any"  => promises[comb.result].state = REJECTED
    /\ comb.kind = "race" => promises[comb.result].state = PEDDING
    /\ comb.wrapped = <<>> /\ comb.derived = <<>>
    /\ microtasks = <<>>

----------------------------------------------------------------------------
(* SpecNew: promises made by new Promise(executor), for executors that     *)
(* call resolve and reject any number of times and then return or throw,   *)
(* and for an executor that is not a function; one then call.              *)

(* The k-th call of an executor passes the number k or the error k. *)
RECURSIVE CallSeqs(_)
CallSeqs(n) ==
  IF n = 0 THEN {<<>>}
  ELSE CallSeqs(n - 1) \cup
       {Append(c, [call |-> k, payload |-> IF k = FULFILLED THEN Num(n) ELSE Err(n)]) :
          c \in {q \in CallSeqs(n - 1) : Len(q) = n - 1}, k \in {FULFILLED, REJECTED}}

Executors ==
  {Executor(TRUE, c, t) : c \in CallSeqs(MaxCalls), t \in {None, Err(0)}}
    \cup {Executor(FALSE, <<>>, None)}

InitNew == Empty0 /\ promises = <<>> /\ thenables = <<>>

CallNew ==
  /\ Len(entries) < MaxNew
  /\ \E executor \in Executors :
       /\ \E W \in {New(World("new"), executor)} : Commit(W)
       /\ entries' = Append(entries, [promise |-> IF executor.callable THEN Len(promises) + 1 ELSE 0,
                                      call |-> "new", payload |-> executor])

ChainNew ==
  /\ UserThens = {}
  /\ \E p \in Ids, h \in HandlerPairs : Then(p, h[1], h[2])

NextNew == CallNew \/ ChainNew \/ RunMicrotask

SpecNew == InitNew /\ [][NextNew]_vars

(* C13. What an executor throws never leaves the constructor (only an      *)
(* executor that is not a function makes the constructor throw); the       *)
(* promise has the outcome of the executor's first call of resolve or      *)
(* reject, whatever it throws afterwards, and is rejected with what the    *)
(* executor throws when it made no call.                                   *)
C13_InitializerFault ==
  /\ raised # None => ~entries[Len(entries)].payload.callable
  /\ \A k \in DOMAIN entries :
       LET executor == entries[k].payload
           p        == entries[k].promise
       IN executor.callable =>
            /\ p \in Ids
            /\ IF executor.calls # <<>>
               THEN /\ promises[p].state = executor.calls[1].call
                    /\ Payload(p) = executor.calls[1].payload
               ELSE IF executor.throws # None
               THEN /\ promises[p].state = REJECTED
                    /\ promises[p].reason = executor.throws
               ELSE promises[p].state = PEDDING

(* An executor that threw with no call before, and one that threw after it *)
(* had called resolve: rejected with the error, and fulfilled.             *)
C13_Witness ==
  \E j, k \in DOMAIN entries :
    /\ entries[j].payload.callable /\ entries[k].payload.callable
    /\ entries[j].payload.calls = <<>> /\ entries[j].payload.throws # None
    /\ promises[entries[j].promise].state = REJECTED
    /\ promises[entries[j].promise].reason = entries[j].payload.throws
    /\ entries[k].payload.calls # <<>> /\ entries[k].payload.throws # None
    /\ entries[k].payload.calls[1].call = FULFILLED
    /\ promises[entries[k].promise].state = FULFILLED

----------------------------------------------------------------------------
(* SpecFinally: two deferred promises and one call of finally on one of    *)
(* them.  onFinallied is not a function, returns a number, throws, or      *)
(* returns one of the deferred promises, settled before or after.          *)

Finalizers == {NotAFunction, Return(Num(0)), Throw(Err(0)), Return(P(1)), Return(P(2))}

FinallyCalls ==
  {d \in Ids : promises[d].by = "then" /\ promises[d].onFulfilled.h = "finally: value =>"}

InitFinally == Empty0 /\ promises = <<Plain("deferred"), Plain("deferred")>> /\ thenables = <<>>

CallFinally ==
  /\ FinallyCalls = {}
  /\ \E p \in Deferreds, f \in Finalizers :
       \E W \in {finally(World("finally"), p, f)} : Commit(W)
  /\ UNCHANGED entries

NextFinally == ResolveFirst \/ RejectFirst \/ CallFinally \/ RunMicrotask

SpecFinally == InitFinally /\ [][NextFinally]_vars

(* The calls of onFinallied made for the finally call that returned d. *)
Finallied(d) == {k \in DOMAIN log : log[k].kind = "onFinallied" /\ log[k].promise = d}

(* C14. For the promise d of a finally call: onFinallied is called at most *)
(* once, with no argument, not while the parent is pending, and has been   *)
(* called once when d is settled.  When d is settled: it is rejected with  *)
(* what onFinallied threw; else, when onFinallied returned a promise, that *)
(* promise is settled and d is rejected with its reason if it is rejected; *)
(* in every other case d has the parent's state and payload.               *)
C14_FinallyPassThrough ==
  \A d \in FinallyCalls :
    LET par == promises[d].parent
        f   == promises[d].onFulfilled.a
    IN /\ Cardinality(Finallied(d)) <= 1
       /\ \A k \in Finallied(d) : log[k].arg = NoArgument
       /\ ~Settled(par) => Finallied(d) = {}
       /\ Settled(d) =>
            /\ Cardinality(Finallied(d)) = 1
            /\ IF f.h = "throw"
               THEN promises[d].state = REJECTED /\ promises[d].reason = f.a
               ELSE IF f.h = "return" /\ f.a.t = "Promise"
               THEN /\ Settled(f.a.n)
                    /\ IF promises[f.a.n].state = REJECTED
                       THEN /\ promises[d].state = REJECTED
                            /\ promises[d].reason = promises[f.a.n].reason
                       ELSE Outcome(d) = Outcome(par)
               ELSE Outcome(d) = Outcome(par)

----------------------------------------------------------------------------
(* SpecDefault: two deferred promises and chains of then and catch calls   *)
(* with and without handlers.                                              *)

PartialPairs ==
  HandlerPairs \cup {<<Return(Num(0)), NotAFunction>>, <<NotAFunction, Return(Num(0))>>}

ChainDefault ==
  /\ Cardinality(UserThens) < MaxHops
  /\ \E p \in Ids, h \in PartialPairs : Then(p, h[1], h[2])

CatchDefault ==
  /\ Cardinality(UserThens) < MaxHops
  /\ \E p \in Ids, r \in {NotAFunction, Return(Num(0)), Throw(Err(0))} : Catch(p, r)

NextDefault == ResolveFirst \/ RejectFirst \/ ChainDefault \/ CatchDefault \/ RunMicrotask

SpecDefault == InitFinally /\ [][NextDefault]_vars

(* C15. For every settled promise d of a then or catch call: if the parent  *)
(* is rejected and the call had no onRejected handler, d is rejected with   *)
(* the parent's reason; if the parent is fulfilled and the call had no      *)
(* onFulfilled handler, d is fulfilled with the parent's value; and d is    *)
(* fulfilled under a rejected parent only when onRejected returned.         *)
C15_DefaultPropagation ==
  \A d \in UserThens :
    LET par == promises[d].parent IN
    /\ (Settled(d) /\ promises[par].state = REJECTED
           /\ promises[d].onRejected.h = "reason => { throw reason }") =>
         Outcome(d) = Outcome(par)
    /\ (Settled(d) /\ promises[par].state = FULFILLED
           /\ promises[d].onFulfilled.h = "value => value") =>
         Outcome(d) = Outcome(par)
    /\ (promises[par].state = REJECTED /\ promises[d].state = FULFILLED) =>
         promises[d].onRejected.h = "return"

----------------------------------------------------------------------------
(* SpecNested: MaxLayers + 1 deferred promises, each settled once, with a  *)
(* number, an error or an older one of them (the layers); one then call    *)
(* whose handlers return one of them, or a thenable that hands the         *)
(* outermost of them to its first callback.                                *)

InitNested ==
  /\ Empty0
  /\ promises = [i \in 1..(MaxLayers + 1) |-> Plain("deferred")]
  /\ thenables = <<Thenable("function", None, <<Signal("onFulfill", P(MaxLayers + 1))>>)>>

ChainNested ==
  /\ UserThens = {}
  /\ \E p \in Deferreds, x \in {P(q) : q \in Deferreds} \cup {T(1)} :
       Then(p, Return(x), Return(x))

NextNested == ResolveFirst \/ RejectFirst \/ ChainNested \/ RunMicrotask

SpecNested == InitNested /\ [][NextNested]_vars

(* The promise of the then call of SpecNested, once the call is made. *)
Nested == MaxLayers + 2

(* The promise a handler's return value x leads to. *)
Target(x) == IF x.t = "Promise" THEN x.n ELSE thenables[x.n].sync[1].v.n

(* The innermost layer under q: q itself unless it is fulfilled with a promise. *)
RECURSIVE Innermost(_)
Innermost(q) ==
  IF promises[q].state = FULFILLED /\ promises[q].value.t = "Promise"
  THEN Innermost(promises[q].value.n) ELSE q

(* The handler of the then call has run. *)
HandlerRan == \E k \in DOMAIN log : log[k].promise = Nested

(* C16. The promise of a then call whose handler returned a promise (or a  *)
(* thenable that passes one on) is pending while the innermost layer under *)
(* that promise is pending, has that layer's outcome when it is settled,   *)
(* and is settled once that layer is and the microtask queue is empty; and *)
(* no promise made by then is ever fulfilled with a promise or with an     *)
(* object whose then is a function.                                        *)
C16_Flattening ==
  /\ HandlerRan =>
       LET q == Innermost(Target(promises[Nested].onFulfilled.a)) IN
       /\ ~Settled(q) => ~Settled(Nested)
       /\ Settled(Nested) => Outcome(Nested) = Outcome(q)
       /\ (Settled(q) /\ microtasks = <<>>) => Settled(Nested)
  /\ \A d \in Ids :
       (promises[d].by = "then" /\ promises[d].state = FULFILLED) =>
         /\ promises[d].value.t # "Promise"
         /\ promises[d].value.t = "thenable" =>
              thenables[promises[d].value.n].member # "function"

(* The handler returned the outermost promise, which is fulfilled with the *)
(* next one, which is fulfilled with the innermost, which is rejected; the *)
(* promise of the then call is rejected with the innermost reason.         *)
C16_Witness ==
  /\ HandlerRan
  /\ promises[Nested].onFulfilled.a.t = "Promise"
  /\ LET q == promises[Nested].onFulfilled.a.n IN
     /\ promises[q].state = FULFILLED /\ promises[q].value.t = "Promise"
     /\ promises[promises[q].value.n].state = FULFILLED
     /\ promises[promises[q].value.n].value.t = "Promise"
     /\ promises[Innermost(q)].state = REJECTED
     /\ promises[Nested].state = REJECTED
     /\ promises[Nested].reason = promises[Innermost(q)].reason

----------------------------------------------------------------------------
(* SpecFair: one deferred promise, settled through its entry points (also  *)
(* a second time), then calls on it and on the promises they return, and a *)
(* host that runs every queued microtask (WF on RunMicrotask).             *)

ChainFair ==
  /\ Cardinality(UserThens) < MaxSubs
  /\ \E p \in Ids, h \in HandlerPairs : Then(p, h[1], h[2])

NextFair == SettleResolve \/ SettleReject \/ ChainFair \/ RunMicrotask

SpecFair == InitOrder /\ [][NextFair]_vars /\ WF_vars(RunMicrotask)

(* The handler invocations of the then call that returned d, and the       *)
(* microtasks queued for it.                                               *)
Runs(d)   == {k \in DOMAIN log : log[k].promise = d}
Queued(d) == {k \in DOMAIN microtasks : microtasks[k].promise = d}

(* C17. For every then call (d is the promise it returned): the microtasks *)
(* queued for it and the handler invocations made for it are at most one   *)
(* together; an invocation happens only under a settled parent, is of the  *)
(* handler that matches the parent's state and gets the parent's payload;  *)
(* and once the parent is settled the handler is invoked eventually.       *)
C17_OneHandler ==
  /\ [](\A d \in Ids :
          promises[d].by = "then" =>
            /\ Cardinality(Runs(d)) + Cardinality(Queued(d)) <= 1
            /\ \A k \in Runs(d) :
                 /\ Settled(promises[d].parent)
                 /\ log[k].kind = promises[promises[d].parent].state
                 /\ log[k].arg = Payload(promises[d].parent))
  /\ \A d \in 2..(1 + MaxSubs) :
       (d \in Ids /\ Settled(promises[d].parent)) ~> (Runs(d) # {})

(* Two then calls on the pending promise, which was fulfilled and then had *)
(* its reject called: each fulfilment handler has run once, no other.      *)
C17_Witness ==
  /\ Len(entries) = 2
  /\ entries[1].call = FULFILLED /\ entries[2].call = REJECTED
  /\ \E d, e \in Ids :
       /\ d # e
       /\ promises[d].parent = 1 /\ promises[e].parent = 1
       /\ promises[d].atCall = PEDDING /\ promises[e].atCall = PEDDING
       /\ Cardinality(Runs(d)) = 1 /\ Cardinality(Runs(e)) = 1
       /\ \A k \in Runs(d) \cup Runs(e) : log[k].kind = FULFILLED

(* C18. A promise that is not pending has both callback queues empty, and  *)
(* every thunk in a queue was put there by a then call that found the      *)
(* promise pending.                                                        *)
C18_QueuesEmptyWhenSettled ==
  \A p \in Ids :
    /\ Settled(p) =>
         /\ promises[p].fulfilledCallbacks = <<>>
         /\ promises[p].rejectedCallbacks = <<>>
    /\ \A k \in DOMAIN promises[p].fulfilledCallbacks :
         promises[promises[p].fulfilledCallbacks[k].promise].atCall = PEDDING
    /\ \A k \in DOMAIN promises[p].rejectedCallbacks :
         promises[promises[p].rejectedCallbacks[k].promise].atCall = PEDDING

----------------------------------------------------------------------------
(* SpecAdapter: the deferred promises and the object of SpecAll; in one    *)
(* call of the run the object is handed to Promise.resolve, or returned by *)
(* the handlers of a then call, or made an element of the input of all.    *)

NoCall ==
  /\ comb.kind = "none" /\ UserThens = {}
  /\ \A k \in DOMAIN entries : entries[k].call # "Promise.resolve"

CallStaticResolve == NoCall /\ \E value \in Elements : StaticResolve(value)
ChainObject       == NoCall /\ ChainThenable
AllOnObject       == NoCall /\ CallAll

NextAdapter == Environment \/ CallStaticResolve \/ ChainObject \/ AllOnObject

SpecAdapter == InitComb /\ [][NextAdapter]_vars

(* Reading the then member of x throws. *)
GetterThrows(x) == x.t = "thenable" /\ thenables[x.n].member = "throws"

(* The promise p is rejected with what the then getter of x throws. *)
RejectedWithFault(p, x) ==
  promises[p].state = REJECTED /\ promises[p].reason = thenables[x.n].e

(* C19. No call throws to its caller (SpecAdapter has no executor that is  *)
(* not a function and no input that is not iterable); for an object whose  *)
(* then getter throws, Promise.resolve returns a promise rejected with the *)
(* error, the promise of a then call whose handler returned the object is  *)
(* rejected with it, and so is the promise of all on an input holding it.  *)
C19_InterrogationFaults ==
  /\ raised = None
  /\ \A k \in DOMAIN entries :
       (entries[k].call = "Promise.resolve" /\ GetterThrows(entries[k].payload)) =>
         /\ entries[k].ret.t = "Promise"
         /\ RejectedWithFault(entries[k].ret.n, entries[k].payload)
  /\ \A d \in UserThens :
       (Runs(d) # {} /\ GetterThrows(promises[d].onFulfilled.a)) =>
         RejectedWithFault(d, promises[d].onFulfilled.a)
  /\ \A i \in DOMAIN comb.inputs :
       GetterThrows(comb.inputs[i]) =>
         Returned /\ RejectedWithFault(comb.result, comb.inputs[i])

(* C20. When every input of race is a promise that was settled already     *)
(* when race subscribed to it, the promise of race, once settled, has the  *)
(* outcome of the input at index 1, and it is settled whenever the         *)
(* microtask queue is empty.                                               *)
C20_RaceLowestIndexWins ==
  (/\ comb.kind = "race" /\ comb.inputs # <<>>
   /\ \A i \in DOMAIN comb.inputs : comb.inputs[i].t = "Promise"
   /\ SettledAtCall = DOMAIN comb.inputs) =>
    /\ Settled(comb.result) => Outcome(comb.result) = Outcome(comb.wrapped[1])
    /\ microtasks = <<>> => Settled(comb.result)

(* Two settled promises with different outcomes, the second settled before *)
(* the first; both handlers have run and race has the outcome of the first.*)
C20_Witness ==
  /\ comb.kind = "race" /\ Len(comb.inputs) = 2
  /\ \A i \in DOMAIN comb.inputs : comb.inputs[i].t = "Promise"
  /\ SettledAtCall = DOMAIN comb.inputs
  /\ Pos(comb.wrapped[2]) < Pos(comb.wrapped[1])
  /\ Outcome(comb.wrapped[1]) # Outcome(comb.wrapped[2])
  /\ \A i \in DOMAIN comb.derived : Runs(comb.derived[i]) # {}
  /\ Outcome(comb.result) = Outcome(comb.wrapped[1])

====
